---- MODULE Spec2Model ----
(***************************************************************************)
(* Model of the two signal bots of the repository.                         *)
(*                                                                         *)
(*   src/Bot.py  Telegram bot: auto_signals (threshold gate on equities,   *)
(*               per-cycle message cap) and the /stock, /options, /forex   *)
(*               command handlers.                                         *)
(*   src/bot.py  Discord + Telegram bot: auto_signals (no gate, two        *)
(*               channels) and the /stock handler handle_stock.            *)
(*                                                                         *)
(* Every call to an external provider (market data, AI, chat delivery) is  *)
(* an input of the step that makes it: the step draws the call's outcome   *)
(* (a value, None, or an exception) with \E.  An exception that no         *)
(* try/except of the source catches ends the asyncio task that runs the    *)
(* loop: pc = "dead", and exc names the exception.                         *)
(***************************************************************************)
EXTENDS Integers, Sequences, FiniteSets, TLC

\* ------------------------------------------------------------------ bounds

\* Number of equity tickers: ALL_STOCKS is loaded at start-up (Bot.py:29-34).
NumStocks == 2
\* How many entries of FOREX_PAIRS / COMMODITIES (Bot.py:37-38) are tracked.
NumForex == 1
NumCommodities == 1
\* The per-cycle cap.  Bot.py:26 sets 10; the model scales it with the
\* instrument lists so that the cap is reached inside the equities loop.
MaxMessages == 2

\* ------------------------------------------------------------- Bot.py data

\* Python's None, as a value no price or rate takes.
None == -1

MAX_MESSAGES_PER_UPDATE == MaxMessages

ALL_STOCKS == SubSeq(<<"AAPL", "MSFT", "NVDA", "AMZN">>, 1, NumStocks)

FOREX_PAIRS ==
    SubSeq(<<"EURUSD", "GBPUSD", "USDJPY", "AUDUSD", "USDCAD", "USDCHF", "NZDUSD">>,
           1, NumForex)

COMMODITIES == SubSeq(<<"XAUUSD", "XAGUSD", "WTIUSD">>, 1, NumCommodities)

\* Values regularMarketPrice takes in the model: 0, and 100 with its 1% and
\* 2% neighbours.
Prices == {0, 100, 101, 102}

\* The prices drawn where command invocations interleave with the loop.
CmdPrices == {100, 102}

\* Exchange rates a provider returns.
Rates == {1}

\* What one call of a market-data provider does: it raises, or it returns a
\* value, which is None when the field is missing.
Raise == -2
FetchOutcomes(values) == values \cup {None, Raise}

\* Bot.py:83, 91 and 95: requests.get is called without timeout=, and requests
\* then waits for an unresponsive server without limit: the call does not
\* return.
Hang == -5

\* What one call of the AI provider or of a chat platform does.
CallOutcomes == {"ok", "raise"}

\* Python truthiness of a numeric-or-None value (None and 0 are falsy).
Truthy(v) == v # None /\ v # 0

Abs(x) == IF x < 0 THEN -x ELSE x

\* The denominator of the literal 0.01 of Bot.py:144.
PCT == 100

\* minor_move with the boundary skipped too (<= for <).
minor_move_inclusive(price, last_p) ==
    IF Truthy(last_p) THEN PCT * Abs(price - last_p) <= Abs(last_p) ELSE TRUE

\* minor_move without the abs() of Bot.py:142: a fall is never a move.
minor_move_signed(price, last_p) ==
    IF Truthy(last_p) THEN PCT * (price - last_p) < Abs(last_p) ELSE TRUE

\* Bot.py:144, `price_change < 0.01`, for price_change of Bot.py:142:
\* abs((price - last_p)/last_p) if last_p else 0.  In exact arithmetic
\* |price - last_p| / |last_p| < 1/100 iff 100 * |price - last_p| < |last_p|;
\* for the integers of Prices the float quotient compares the same way (the
\* correctly rounded quotient of a change of exactly 1% is the double 0.01).
minor_move(price, last_p) ==
    IF Truthy(last_p) THEN PCT * Abs(price - last_p) < Abs(last_p) ELSE TRUE

\* Bot.py:142 raises TypeError when last_p is truthy and price is None.
price_change_raises(price, last_p) == Truthy(last_p) /\ price = None

\* Bot.py:120-126: the text ai_signal returns.
ai_signal(outcome) == IF outcome = "raise" THEN "AI analysis failed" ELSE "AI signal"

\* Bot.py:80-86 and 88-100: an exception inside the fetch is turned into None.
get_rate(outcome) == IF outcome = Raise THEN None ELSE outcome

\* A formatted message: the instrument, the value shown, the signal text.
\* The options, news and filings sections (Bot.py:148-155) are left out of the
\* text: each defaults to an empty section and none can end the iteration.
Msg(id, value, signal) == [id |-> id, value |-> value, signal |-> signal]

\* Bot.py:133-135.
Header == Msg("header", None, "")

\* to_send without the slice: every message of the cycle is sent.
to_send_all(msgs) == msgs

\* Bot.py:193: messages[:MAX_MESSAGES_PER_UPDATE].
to_send(msgs) ==
    SubSeq(msgs, 1, IF Len(msgs) < MAX_MESSAGES_PER_UPDATE THEN Len(msgs)
                    ELSE MAX_MESSAGES_PER_UPDATE)

\* dict.get that answers a fixed price, not `default`, for a missing key.
dict_get_fixed_default(d, k, default) == IF k \in DOMAIN d THEN d[k] ELSE 100

\* dict.get(key, default) and dict[key] = value on last_price.
dict_get(d, k, default) == IF k \in DOMAIN d THEN d[k] ELSE default
dict_set(d, k, v) == [x \in DOMAIN d \cup {k} |-> IF x = k THEN v ELSE d[x]]

\* ------------------------------------------------------------------ state

VARIABLES
    \* src/Bot.py
    last_price,   \* Bot.py:129, the module-level dict
    messages,     \* Bot.py:133, the cycle's message list
    pc,           \* where auto_signals is: top, stocks, forex, commodities,
                  \* send, sleep, dead, blocked (in a call that never returns)
    idx,          \* position of the running for loop in its list (1-based)
    ticker,       \* Bot.py:138, loop variable of the equities loop
    price,        \* Bot.py:139, local of the equities loop
    last_p,       \* Bot.py:140, local of the equities loop
    exc,          \* the exception that ended the loop's task ("" while it runs)
    calls,        \* the provider calls of the running cycle, <<provider, instrument>>
    sent,         \* what the chat received in the running cycle
    cmd,          \* the outcome of the last command invocation
    \* src/bot.py
    m_messages,   \* bot.py:75
    m_pc,         \* where auto_signals is: top, stocks, forex, discord,
                  \* telegram, sleep, dead
    m_idx,        \* position of the running for loop in its list (1-based)
    m_exc,        \* the exception that ended the loop's task
    m_discord,    \* what the Discord channel received in the running cycle
    m_telegram,   \* what the Telegram chat received in the running cycle
    m_cmd,        \* the outcome of the last /stock invocation
    \* check_unusual_volume of src/Bot.py, called on its own
    chains,       \* Bot.py:64, the argument: the option-chain snapshots
    unusual,      \* Bot.py:65, 78: the list the last call returned
    first,        \* the list the first call returned
    ncalls        \* how many calls were made on `chains`

loopVars == <<last_price, messages, pc, idx, ticker, price, last_p, exc, calls, sent>>

botVars == <<loopVars, cmd>>

multiLoopVars == <<m_messages, m_pc, m_idx, m_exc, m_discord, m_telegram>>

multiVars == <<multiLoopVars, m_cmd>>

volVars == <<chains, unusual, first, ncalls>>

vars == <<botVars, multiVars, volVars>>

\* What the requester gets from one invocation: the reply text, or nothing
\* when the handler ended with the exception `out`.
Replied(name, args, id, signal) ==
    [name |-> name, args |-> args, out |-> "replied", id |-> id, signal |-> signal]
Failed(name, args, e) ==
    [name |-> name, args |-> args, out |-> e, id |-> "", signal |-> ""]
NoCmd == [name |-> "", args |-> <<>>, out |-> "", id |-> "", signal |-> ""]

\* Bot.py:129 and bot.py:71-75: both loops before their first cycle.
LoopInit ==
    /\ last_price = <<>>
    /\ messages = <<>>
    /\ pc = "top"
    /\ idx = 1
    /\ ticker = ""
    /\ price = None
    /\ last_p = None
    /\ exc = ""
    /\ calls = <<>>
    /\ sent = <<>>
    /\ cmd = NoCmd
    /\ m_messages = <<>>
    /\ m_pc = "top"
    /\ m_idx = 1
    /\ m_exc = ""
    /\ m_discord = <<>>
    /\ m_telegram = <<>>
    /\ m_cmd = NoCmd

Init ==
    /\ LoopInit
    /\ chains = <<>>
    /\ unusual = <<>>
    /\ first = <<>>
    /\ ncalls = 0

\* ------------------------------------------------------ Bot.py auto_signals

\* Bot.py:132-135: a cycle starts with the header as its first message.
BeginCycle ==
    /\ pc = "top"
    /\ messages' = <<Header>>
    /\ calls' = <<>>
    /\ sent' = <<>>
    /\ pc' = "stocks"
    /\ idx' = 1
    /\ UNCHANGED <<last_price, ticker, price, last_p, exc, cmd, multiVars, volVars>>

\* The unhandled exception e ends the task.
Die(e) == pc' = "dead" /\ exc' = e

\* StockContext with the AI provider asked a second time.
StockContext_retrying(t) ==
    <<<<"options", t>>, <<"news", t>>, <<"filings", t>>, <<"ai", t>>, <<"ai", t>>>>

\* Bot.py:147-167: the providers called for an equity that passed the gate.
StockContext(t) == <<<<"options", t>>, <<"news", t>>, <<"filings", t>>, <<"ai", t>>>>

\* Bot.py:138-172: one iteration of the equities loop, or its end.  P is the
\* set of prices the market-data provider returns.
StockIter(P) ==
    /\ pc = "stocks"
    /\ IF idx > Len(ALL_STOCKS)
       THEN /\ pc' = "forex"
            /\ idx' = 1
            /\ UNCHANGED <<last_price, messages, ticker, price, last_p, exc, calls>>
       ELSE LET t == ALL_STOCKS[idx] IN
            /\ ticker' = t
            /\ \E fetched \in FetchOutcomes(P) :
                IF fetched = Raise
                THEN \* get_stock_data raises (Bot.py:139, no try/except)
                     /\ Die("ProviderError")
                     /\ calls' = Append(calls, <<"quote", t>>)
                     /\ UNCHANGED <<last_price, messages, idx, price, last_p>>
                ELSE LET lp == dict_get(last_price, t, fetched) IN
                     /\ price' = fetched
                     /\ last_p' = lp
                     /\ last_price' = dict_set(last_price, t, fetched)
                     /\ IF price_change_raises(fetched, lp)
                        THEN /\ Die("TypeError")
                             /\ calls' = Append(calls, <<"quote", t>>)
                             /\ UNCHANGED <<messages, idx>>
                        ELSE IF minor_move(fetched, lp)
                        THEN \* continue
                             /\ idx' = idx + 1
                             /\ calls' = Append(calls, <<"quote", t>>)
                             /\ UNCHANGED <<messages, pc, exc>>
                        ELSE \E ai \in CallOutcomes :
                             LET msgs == Append(messages,
                                                Msg(t, fetched, ai_signal(ai))) IN
                             /\ messages' = msgs
                             /\ calls' = Append(calls, <<"quote", t>>) \o StockContext(t)
                             /\ UNCHANGED exc
                             /\ IF Len(msgs) >= MAX_MESSAGES_PER_UPDATE
                                THEN pc' = "forex" /\ idx' = 1      \* break
                                ELSE pc' = pc /\ idx' = idx + 1
    /\ UNCHANGED <<sent, cmd, multiVars, volVars>>

\* A rate loop that is not entered once the cap is reached: nothing is fetched
\* for a cycle whose messages are already complete.
RateIter_capped(here, list, next) ==
    /\ pc = here
    /\ IF idx > Len(list) \/ Len(messages) >= MAX_MESSAGES_PER_UPDATE
       THEN pc' = next /\ idx' = 1 /\ UNCHANGED <<messages, calls>>
       ELSE \E fetched \in Rates, ai \in CallOutcomes :
              /\ messages' = Append(messages, Msg(list[idx], fetched, ai_signal(ai)))
              /\ calls' = calls \o <<<<"rate", list[idx]>>, <<"ai", list[idx]>>>>
              /\ pc' = pc
              /\ idx' = idx + 1
    /\ UNCHANGED <<last_price, ticker, price, last_p, exc, sent, cmd, multiVars, volVars>>

\* Bot.py:175-181 and 184-190: one iteration of a rate loop over `list`, which
\* hands over to `next` at its end or at the cap.
RateIter(here, list, next) ==
    /\ pc = here
    /\ IF idx > Len(list)
       THEN pc' = next /\ idx' = 1 /\ UNCHANGED <<messages, calls>>
       ELSE \E fetched \in FetchOutcomes(Rates) \cup {Hang} :
              LET rate == get_rate(fetched) IN
              IF fetched = Hang
              THEN \* requests.get never returns: no exception, no next line
                   /\ pc' = "blocked"
                   /\ calls' = Append(calls, <<"rate", list[idx]>>)
                   /\ UNCHANGED <<messages, idx>>
              ELSE IF Truthy(rate)
              THEN \E ai \in CallOutcomes :
                   LET msgs == Append(messages,
                                      Msg(list[idx], rate, ai_signal(ai))) IN
                   /\ messages' = msgs
                   /\ calls' = calls \o <<<<"rate", list[idx]>>, <<"ai", list[idx]>>>>
                   /\ IF Len(msgs) >= MAX_MESSAGES_PER_UPDATE
                      THEN pc' = next /\ idx' = 1                 \* break
                      ELSE pc' = pc /\ idx' = idx + 1
              ELSE /\ pc' = pc
                   /\ idx' = idx + 1
                   /\ calls' = Append(calls, <<"rate", list[idx]>>)
                   /\ UNCHANGED messages
    /\ UNCHANGED <<last_price, ticker, price, last_p, exc, sent, cmd, multiVars, volVars>>

ForexIter == RateIter("forex", FOREX_PAIRS, "commodities")

CommodityIter == RateIter("commodities", COMMODITIES, "send")

\* Bot.py:193-194: one send_message of the send loop, or its end.
SendIter ==
    /\ pc = "send"
    /\ IF idx > Len(to_send(messages))
       THEN pc' = "sleep" /\ idx' = 1 /\ UNCHANGED <<sent, exc, calls>>
       ELSE LET m == to_send(messages)[idx] IN
            /\ calls' = Append(calls, <<"send", m.id>>)
            /\ \E delivery \in CallOutcomes :
                IF delivery = "raise"
                THEN Die("SendError") /\ UNCHANGED <<sent, idx>>
                ELSE /\ sent' = Append(sent, m)
                     /\ idx' = idx + 1
                     /\ UNCHANGED <<pc, exc>>
    /\ UNCHANGED <<last_price, messages, ticker, price, last_p, cmd, multiVars, volVars>>

\* Bot.py:196.
Sleep ==
    /\ pc = "sleep"
    /\ pc' = "top"
    /\ UNCHANGED <<last_price, messages, idx, ticker, price, last_p, exc, calls,
                   sent, cmd, multiVars, volVars>>

\* Bot.py:131-196.
auto_signals(P) ==
    BeginCycle \/ StockIter(P) \/ ForexIter \/ CommodityIter \/ SendIter \/ Sleep

\* ---------------------------------------------------- Bot.py command handlers

\* context.args of an invocation: no argument, or one instrument token.
StockArgs == {<<>>, <<"AAPL">>}
ForexArgs == {<<>>, <<"EURUSD">>}

\* stock_command that also records the price it fetched as the last observed.
stock_command_caching ==
    /\ \E args \in {<<"AAPL">>}, fetched \in CmdPrices :
         /\ cmd' = Replied("stock", args, args[1], ai_signal("ok"))
         /\ last_price' = dict_set(last_price, args[1], fetched)
    /\ UNCHANGED <<messages, pc, idx, ticker, price, last_p, exc, calls, sent, multiVars, volVars>>

\* stock_command behind the loop's threshold gate: no reply for a price that
\* moved less than the threshold against last_price.
stock_command_gated ==
    /\ \E args \in {<<"AAPL">>}, fetched \in {100} :
         cmd' = IF minor_move(fetched, dict_get(last_price, args[1], fetched))
                THEN Failed("stock", args, "skipped")
                ELSE Replied("stock", args, args[1], ai_signal("ok"))
    /\ UNCHANGED <<loopVars, multiVars, volVars>>

\* Bot.py:199-203.
stock_command ==
    /\ \E args \in StockArgs :
         IF args = <<>>
         THEN cmd' = Failed("stock", args, "IndexError")          \* args[0]
         ELSE \E fetched \in {Raise, 100} :
              IF fetched = Raise                                  \* get_stock_data
              THEN cmd' = Failed("stock", args, "ProviderError")
              ELSE \E delivery \in CallOutcomes :
                   IF delivery = "raise"                          \* reply_text
                   THEN cmd' = Failed("stock", args, "SendError")
                   ELSE \E ai \in CallOutcomes :
                        cmd' = Replied("stock", args, args[1], ai_signal(ai))
    /\ UNCHANGED <<loopVars, multiVars, volVars>>

\* Bot.py:205-215.  get_options_data catches its provider's failures and
\* check_unusual_volume flags rows or not: the reply is one of two texts.
options_command ==
    /\ \E args \in StockArgs :
         IF args = <<>>
         THEN cmd' = Failed("options", args, "IndexError")
         ELSE \E delivery \in CallOutcomes :
              IF delivery = "raise"
              THEN cmd' = Failed("options", args, "SendError")
              ELSE \E flagged \in BOOLEAN :
                   cmd' = Replied("options", args, args[1],
                                  IF flagged THEN "Options Unusual Activity"
                                  ELSE "No unusual options activity")
    /\ UNCHANGED <<loopVars, multiVars, volVars>>

\* Bot.py:217-221.  get_forex_rate never raises: a failed fetch shows as None.
forex_command ==
    /\ \E args \in ForexArgs :
         IF args = <<>>
         THEN cmd' = Failed("forex", args, "IndexError")
         ELSE \E delivery \in CallOutcomes :
              IF delivery = "raise"
              THEN cmd' = Failed("forex", args, "SendError")
              ELSE \E ai \in CallOutcomes :
                   cmd' = Replied("forex", args, args[1], ai_signal(ai))
    /\ UNCHANGED <<loopVars, multiVars, volVars>>

\* Bot.py:224-227: the handlers the application dispatches to.
Command == stock_command \/ options_command \/ forex_command

\* ------------------------------------------------------- bot.py auto_signals

\* bot.py:29-30, cut to the model's list lengths.
STOCKS == SubSeq(<<"AAPL", "TSLA", "AMZN", "NVDA", "GOOGL">>, 1, NumStocks)

MULTI_FOREX_PAIRS == SubSeq(<<"EURUSD", "GBPUSD", "USDJPY", "XAUUSD">>, 1, NumForex)

\* bot.py:90-92: the text shown for a rate that could not be fetched ("N/A").
NA == -3

\* bot.py:89-92: a missing rate and a failed fetch both show as "N/A".
multi_rate(outcome) == IF outcome \in {Raise, None} THEN NA ELSE outcome

\* bot.py:39-55, ai_signal_for_stock: the message it returns, or the exception
\* it raises, for the outcome of its price fetch and of its AI call.  The option
\* chain fetch is caught inside (bot.py:43-49).
ai_signal_for_stock(t, fetched, ai) ==
    IF fetched = Raise THEN [raised |-> "ProviderError", msg |-> Msg(t, None, "")]
    ELSE IF ai = "raise" THEN [raised |-> "AIError", msg |-> Msg(t, None, "")]
    ELSE [raised |-> "", msg |-> Msg(t, fetched, "AI signal")]

\* bot.py:83: the message appended when ai_signal_for_stock raised e.
ErrorMsg(t, e) == Msg(t, None, "Error fetching signal - " \o e)

\* bot.py:74-75.
MultiBeginCycle ==
    /\ m_pc = "top"
    /\ m_messages' = <<>>
    /\ m_discord' = <<>>
    /\ m_telegram' = <<>>
    /\ m_pc' = "stocks"
    /\ m_idx' = 1
    /\ UNCHANGED <<m_exc, m_cmd, botVars, volVars>>

MultiDie(e) == m_pc' = "dead" /\ m_exc' = e

\* bot.py:78-83: one iteration of the stocks loop, or its end.
MultiStockIter ==
    /\ m_pc = "stocks"
    /\ IF m_idx > Len(STOCKS)
       THEN m_pc' = "forex" /\ m_idx' = 1 /\ UNCHANGED m_messages
       ELSE \E fetched \in FetchOutcomes({100}), ai \in CallOutcomes :
              LET r == ai_signal_for_stock(STOCKS[m_idx], fetched, ai) IN
              /\ m_messages' = Append(m_messages,
                                      IF r.raised = "" THEN r.msg
                                      ELSE ErrorMsg(STOCKS[m_idx], r.raised))
              /\ m_idx' = m_idx + 1
              /\ m_pc' = m_pc
    /\ UNCHANGED <<m_exc, m_discord, m_telegram, m_cmd, botVars, volVars>>

\* bot.py:86-96: one iteration of the forex loop, or its end.  The AI call of
\* bot.py:94 is outside every try.
MultiForexIter ==
    /\ m_pc = "forex"
    /\ IF m_idx > Len(MULTI_FOREX_PAIRS)
       THEN m_pc' = "discord" /\ m_idx' = 1 /\ UNCHANGED <<m_messages, m_exc>>
       ELSE \E fetched \in FetchOutcomes(Rates), ai \in CallOutcomes :
              IF ai = "raise"
              THEN MultiDie("AIError") /\ UNCHANGED <<m_messages, m_idx>>
              ELSE /\ m_messages' = Append(m_messages,
                                           Msg(MULTI_FOREX_PAIRS[m_idx],
                                               multi_rate(fetched), "AI signal"))
                   /\ m_idx' = m_idx + 1
                   /\ UNCHANGED <<m_pc, m_exc>>
    /\ UNCHANGED <<m_discord, m_telegram, m_cmd, botVars, volVars>>

\* bot.py:99-100: the Discord send of message m_idx, or the end of the loop.
MultiSendDiscord ==
    /\ m_pc = "discord"
    /\ IF m_idx > Len(m_messages)
       THEN m_pc' = "sleep" /\ m_idx' = 1 /\ UNCHANGED <<m_discord, m_exc>>
       ELSE \E delivery \in CallOutcomes :
              IF delivery = "raise"
              THEN MultiDie("DiscordSendError") /\ UNCHANGED <<m_discord, m_idx>>
              ELSE /\ m_discord' = Append(m_discord, m_messages[m_idx])
                   /\ m_pc' = "telegram"
                   /\ UNCHANGED <<m_idx, m_exc>>
    /\ UNCHANGED <<m_messages, m_telegram, m_cmd, botVars, volVars>>

\* bot.py:101: the Telegram send of message m_idx.
MultiSendTelegram ==
    /\ m_pc = "telegram"
    /\ \E delivery \in CallOutcomes :
         IF delivery = "raise"
         THEN MultiDie("TelegramSendError") /\ UNCHANGED <<m_telegram, m_idx>>
         ELSE /\ m_telegram' = Append(m_telegram, m_messages[m_idx])
              /\ m_pc' = "discord"
              /\ m_idx' = m_idx + 1
              /\ UNCHANGED m_exc
    /\ UNCHANGED <<m_messages, m_discord, m_cmd, botVars, volVars>>

\* bot.py:103.
MultiSleep ==
    /\ m_pc = "sleep"
    /\ m_pc' = "top"
    /\ UNCHANGED <<m_messages, m_idx, m_exc, m_discord, m_telegram, m_cmd, botVars, volVars>>

\* bot.py:57-60.
handle_stock ==
    /\ \E args \in StockArgs :
         LET t == IF args # <<>> THEN args[1] ELSE "AAPL" IN
         \E fetched \in FetchOutcomes({100}), ai \in CallOutcomes :
           LET r == ai_signal_for_stock(t, fetched, ai) IN
           IF r.raised # ""
           THEN m_cmd' = Failed("stock", args, r.raised)
           ELSE \E delivery \in CallOutcomes :
                m_cmd' = IF delivery = "raise"
                         THEN Failed("stock", args, "SendError")
                         ELSE Replied("stock", args, t, r.msg.signal)
    /\ UNCHANGED <<multiLoopVars, botVars, volVars>>

\* bot.py:71-103.
multi_auto_signals ==
    \/ MultiBeginCycle
    \/ MultiStockIter
    \/ MultiForexIter
    \/ MultiSendDiscord
    \/ MultiSendTelegram
    \/ MultiSleep

\* ------------------------------------------------ Bot.py check_unusual_volume

\* Total number of rows of the option chains handed to one call.
MaxRows == 4
\* How many times the scan is called on the same chains.
MaxVolCalls == 2

\* Bot.py:57, t.options[:2]: at most two snapshots reach the scan.
MAX_EXPIRATIONS == 2

\* Bot.py:24, OPTIONS_UNUSUAL_VOLUME_MULTIPLIER = 1.5, as the fraction 3/2.
MULT_NUM == 3
MULT_DEN == 2

\* A missing volume of a data frame (NaN).
NaN == -4

\* Traded volumes of the model; 3 is exactly 1.5 times the mean of 1 and 3.
Volumes == {0, 1, 3}

\* A data frame is the sequence of its rows; the strike tells the rows of one
\* frame apart.
Row(i, v) == [strike |-> i, volume |-> v, lastPrice |-> 1]
Frame(vols) == [i \in 1..Len(vols) |-> Row(i, vols[i])]

\* Bot.py:59: one snapshot.
Chain(n, c, p) == [expiration |-> n, calls |-> Frame(c), puts |-> Frame(p)]

\* The volume columns of at most n rows.
Columns(n) == UNION {[1..k -> Volumes \cup {NaN}] : k \in 0..n}

\* Series.mean() of pandas: the mean of the values that are not NaN, as the
\* fraction num/den; den = 0 stands for the NaN mean of no values.
RECURSIVE SumVolumes(_)
SumVolumes(df) ==
    IF df = <<>> THEN 0
    ELSE (IF Head(df).volume = NaN THEN 0 ELSE Head(df).volume) + SumVolumes(Tail(df))

mean(df) ==
    [num |-> SumVolumes(df),
     den |-> Len(SelectSeq(df, LAMBDA r : r.volume # NaN))]

\* Bot.py:68, `df['volume'].mean() or 1`: a zero mean is falsy, NaN is not.
avg_vol(df) ==
    LET m == mean(df) IN
    IF m.den # 0 /\ m.num = 0 THEN [num |-> 1, den |-> 1] ELSE m

\* exceeds with the boundary flagged too (>= for >).
exceeds_inclusive(volume, avg) ==
    /\ volume # NaN
    /\ avg.den # 0
    /\ volume * avg.den * MULT_DEN >= avg.num * MULT_NUM

\* Bot.py:69, volume > avg_vol * OPTIONS_UNUSUAL_VOLUME_MULTIPLIER; every
\* comparison with NaN is false.
exceeds(volume, avg) ==
    /\ volume # NaN
    /\ avg.den # 0
    /\ volume * avg.den * MULT_DEN > avg.num * MULT_NUM

\* Bot.py:71-77: the record appended for a flagged row.
Flagged(row, kind, expiration) ==
    [type |-> kind, strike |-> row.strike, volume |-> row.volume,
     expiration |-> expiration, lastPrice |-> row.lastPrice]

\* Bot.py:68-77: the rows one side of one snapshot adds to the list.
side_unusual(df, kind, expiration) ==
    LET avg == avg_vol(df)
        df_unusual == SelectSeq(df, LAMBDA r : exceeds(r.volume, avg))
    IN  [i \in 1..Len(df_unusual) |-> Flagged(df_unusual[i], kind, expiration)]

\* check_unusual_volume that puts each snapshot's rows in front of the list.
RECURSIVE check_unusual_volume_prepend(_)
check_unusual_volume_prepend(cs) ==
    IF cs = <<>> THEN <<>>
    ELSE check_unusual_volume_prepend(Tail(cs))
         \o side_unusual(Head(cs).puts, "PUT", Head(cs).expiration)
         \o side_unusual(Head(cs).calls, "CALL", Head(cs).expiration)

\* Bot.py:64-78.
RECURSIVE check_unusual_volume(_)
check_unusual_volume(cs) ==
    IF cs = <<>> THEN <<>>
    ELSE side_unusual(Head(cs).calls, "CALL", Head(cs).expiration)
         \o side_unusual(Head(cs).puts, "PUT", Head(cs).expiration)
         \o check_unusual_volume(Tail(cs))

\* The scan is handed any chains of at most MAX_EXPIRATIONS snapshots.
VolInit ==
    /\ LoopInit
    /\ unusual = <<>>
    /\ first = <<>>
    /\ ncalls = 0
    /\ \E n \in 0..MAX_EXPIRATIONS :
       \E c1 \in Columns(IF n >= 1 THEN MaxRows ELSE 0) :
       \E p1 \in Columns(IF n >= 1 THEN MaxRows - Len(c1) ELSE 0) :
       \E c2 \in Columns(IF n >= 2 THEN MaxRows - Len(c1) - Len(p1) ELSE 0) :
       \E p2 \in Columns(IF n >= 2 THEN MaxRows - Len(c1) - Len(p1) - Len(c2) ELSE 0) :
         chains = SubSeq(<<Chain(1, c1, p1), Chain(2, c2, p2)>>, 1, n)

\* One call of check_unusual_volume(chains): Bot.py:149 and 208.  The function
\* builds a new list and new frames; it assigns to nothing of its argument.
CallVolume ==
    /\ ncalls < MaxVolCalls
    /\ unusual' = check_unusual_volume(chains)
    /\ first' = IF ncalls = 0 THEN check_unusual_volume(chains) ELSE first
    /\ ncalls' = ncalls + 1
    /\ UNCHANGED <<chains, botVars, multiVars>>

\* ------------------------------------------------------------ specifications

\* The signal loop of Bot.py on its own.
Next == auto_signals(Prices)

Spec == Init /\ [][Next]_vars

\* The signal loop of Bot.py with command invocations at any point of it.
NextCmd == auto_signals(CmdPrices) \/ Command

SpecCmd == Init /\ [][NextCmd]_vars

\* bot.py: its signal loop with /stock invocations at any point of it.
NextMulti == multi_auto_signals \/ handle_stock

SpecMulti == Init /\ [][NextMulti]_vars

\* check_unusual_volume called on every input of the model.
NextVol == CallVolume

SpecVol == VolInit /\ [][NextVol]_vars

\* ------------------------------------------------------------------ claims

\* The instrument t has a message in the running cycle's list.
Reported(t) == \E k \in 1..Len(messages) : messages[k].id = t

\* The locals ticker, price and last_p are those of an equity evaluated in the
\* running cycle (at the top of a cycle they are still the previous cycle's).
Evaluated ==
    \/ pc \in {"forex", "commodities", "send", "sleep"}
    \/ pc = "stocks" /\ idx > 1

\* The provider `what` was called for instrument t in the running cycle.
Called(what, t) == \E k \in 1..Len(calls) : calls[k] = <<what, t>>

\* The instruments in configured iteration order, after the header.
Configured == <<"header">> \o ALL_STOCKS \o FOREX_PAIRS \o COMMODITIES

Pos(id) == CHOOSE k \in 1..Len(Configured) : Configured[k] = id

\* C1: a market-data failure for one instrument (the provider raises, or
\* returns no price) never ends the signal loop: the cycle goes on with the
\* other instruments.
C1_ProviderFailureKeepsLoop ==
    ~(pc = "dead" /\ exc \in {"ProviderError", "TypeError"})

\* C2: when a cycle of Bot.py's loop has completed, every configured equity
\* was fetched in that cycle, so last_price holds that cycle's value for it,
\* whether or not the cap was reached.
C2_LastPriceRefreshedEveryCycle ==
    pc = "sleep" => \A k \in 1..Len(ALL_STOCKS) : Called("quote", ALL_STOCKS[k])

\* C3: an equity whose last observed value is 0 and whose current value is
\* nonzero is reported in that cycle.
C3_ZeroBaselineReported ==
    (Evaluated /\ last_p = 0 /\ price # None /\ price # 0) => Reported(ticker)

\* C4 as stated: an equity whose relative change equals the threshold exactly
\* (100 -> 101) is not reported.
C4_BoundaryNotReported ==
    (Evaluated /\ last_p = 100 /\ price = 101) => ~Reported(ticker)

\* C4 as amended: an equity whose relative change equals the threshold exactly
\* (100 -> 101) is reported: the skip test price_change < 0.01 is strict.
C4_BoundaryReported ==
    (Evaluated /\ Truthy(last_p) /\ price # None
               /\ PCT * Abs(price - last_p) = Abs(last_p))
        => Reported(ticker)

C4_Witness == Evaluated /\ last_p = 100 /\ price = 101 /\ Reported(ticker)

\* C5: for an equity with a nonzero last observed value and a fetched price, a
\* relative change strictly below 1% adds no message for it and a relative
\* change strictly above 1% adds its message (the equities loop only reaches
\* an equity while the cap is not reached).
C5_GateBelowAbove ==
    (Evaluated /\ Truthy(last_p) /\ price # None) =>
        /\ PCT * Abs(price - last_p) < Abs(last_p) => ~Reported(ticker)
        /\ PCT * Abs(price - last_p) > Abs(last_p) =>
               \E k \in 1..Len(messages) :
                   messages[k].id = ticker /\ messages[k].value = price

C5_Witness == Evaluated /\ last_p = 100 /\ price = 102 /\ Reported(ticker)

\* C6: at most MAX_MESSAGES_PER_UPDATE messages are sent in a cycle; the
\* messages sent are the first ones of the cycle's list, which is in configured
\* order (equities, forex pairs, commodities), and no forex pair or commodity
\* is sent in a cycle whose equities loop stopped before its last equity.
C6_CapAndOrder ==
    /\ Len(sent) <= MAX_MESSAGES_PER_UPDATE
    /\ Len(sent) <= Len(messages)
    /\ \A k \in 1..Len(sent) : sent[k] = messages[k]
    /\ \A j, k \in 1..Len(messages) :
           j < k => Pos(messages[j].id) < Pos(messages[k].id)
    /\ (\E k \in 1..Len(sent) : Pos(sent[k].id) > 1 + Len(ALL_STOCKS))
           => \A k \in 1..Len(ALL_STOCKS) : Called("quote", ALL_STOCKS[k])

C6_Witness ==
    /\ pc = "sleep"
    /\ Len(messages) > MAX_MESSAGES_PER_UPDATE
    /\ Len(sent) = MAX_MESSAGES_PER_UPDATE

\* C7: a delivery failure for one message on one channel never ends the
\* signal loop (bot.py: Discord send, then Telegram send).
C7_DeliveryFailureIsolated ==
    m_exc \notin {"DiscordSendError", "TelegramSendError"}

\* C8: a failed AI call of the signal loop never ends the loop, and the
\* message of its instrument carries the placeholder, not an error text
\* (bot.py: stocks and forex pairs).
C8_AIFailureYieldsPlaceholder ==
    /\ m_exc # "AIError"
    /\ \A k \in 1..Len(m_messages) :
           m_messages[k].signal # "Error fetching signal - AIError"

\* C9: a command invocation changes nothing of the signal loop's state:
\* last_price, the cycle's messages, the loop's position and what it sent.
C9_CommandsLeaveLoopAlone == [][cmd' # cmd => UNCHANGED loopVars]_vars

C9_Witness ==
    /\ cmd.out = "replied"
    /\ pc = "stocks"
    /\ idx > 1
    /\ DOMAIN last_price # {}

\* C10: a command invoked without its instrument argument ends with a reply
\* to the requester, never with an exception.
C10_MissingArgumentGetsErrorReply ==
    (cmd.name # "" /\ cmd.args = <<>>) => cmd.out = "replied"

\* The frame of side `kind` of snapshot s of the input.
SideOf(s, kind) == IF kind = "CALL" THEN chains[s].calls ELSE chains[s].puts

\* The rows of a frame whose volume is known.
Known(df) == {i \in 1..Len(df) : df[i].volume # NaN}

RECURSIVE Total(_, _)
Total(df, rows) ==
    IF rows = {} THEN 0
    ELSE LET i == CHOOSE x \in rows : TRUE IN df[i].volume + Total(df, rows \ {i})

\* Row i of df trades more than 1.5 times the mean of df's known volumes, the
\* mean counting as 1 when it is zero.
Exceeds(df, i) ==
    /\ i \in Known(df)
    /\ IF Total(df, Known(df)) = 0
       THEN MULT_DEN * df[i].volume > MULT_NUM
       ELSE MULT_DEN * Cardinality(Known(df)) * df[i].volume
                > MULT_NUM * Total(df, Known(df))

\* Row i of side `kind` of snapshot s, tagged as the scan tags it.
Tagged(s, kind, i) ==
    [type |-> kind, strike |-> SideOf(s, kind)[i].strike,
     volume |-> SideOf(s, kind)[i].volume,
     expiration |-> chains[s].expiration,
     lastPrice |-> SideOf(s, kind)[i].lastPrice]

InOutput(r) == \E k \in 1..Len(unusual) : unusual[k] = r

Sides == {"CALL", "PUT"}

\* C11: after a call of check_unusual_volume, a row is in the output, tagged
\* with its side and its snapshot's expiration, if and only if its volume
\* strictly exceeds 1.5 times the mean of its own side's volumes (taken as 1
\* when the mean is zero); the output holds nothing else.
C11_FlaggedIffExceedsOwnSideMean ==
    ncalls > 0 =>
        /\ \A s \in 1..Len(chains) : \A kind \in Sides :
             \A i \in 1..Len(SideOf(s, kind)) :
                 Exceeds(SideOf(s, kind), i) <=> InOutput(Tagged(s, kind, i))
        /\ \A k \in 1..Len(unusual) :
             \E s \in 1..Len(chains) : \E kind \in Sides :
               \E i \in 1..Len(SideOf(s, kind)) : unusual[k] = Tagged(s, kind, i)

\* A call flagged a row and left alone a row of the same volume of the other
\* side of the same snapshot.
C11_Witness ==
    /\ ncalls > 0
    /\ \E s \in 1..Len(chains) :
         \E i \in 1..Len(chains[s].calls) : \E j \in 1..Len(chains[s].puts) :
           /\ chains[s].calls[i].volume = chains[s].puts[j].volume
           /\ InOutput(Tagged(s, "CALL", i))
           /\ ~InOutput(Tagged(s, "PUT", j))

\* Every row of the input in input order: snapshot by snapshot, calls before
\* puts, each side in row order.
RECURSIVE InputRows(_)
InputRows(s) ==
    IF s > Len(chains) THEN <<>>
    ELSE [i \in 1..Len(chains[s].calls) |-> Tagged(s, "CALL", i)]
         \o [i \in 1..Len(chains[s].puts) |-> Tagged(s, "PUT", i)]
         \o InputRows(s + 1)

InputPos(r) == CHOOSE k \in 1..Len(InputRows(1)) : InputRows(1)[k] = r

\* The output rows are input rows, in the order of the input.
OrderPreserved ==
    /\ \A k \in 1..Len(unusual) :
           \E j \in 1..Len(InputRows(1)) : InputRows(1)[j] = unusual[k]
    /\ \A a, b \in 1..Len(unusual) :
           a < b => InputPos(unusual[a]) < InputPos(unusual[b])

C12_NoCallBlocksTheLoop == pc # "blocked"

RateInstruments ==
    {FOREX_PAIRS[i] : i \in 1..Len(FOREX_PAIRS)} \cup
    {COMMODITIES[i] : i \in 1..Len(COMMODITIES)}

\* C14: the threshold gate covers forex pairs and commodities too: a step
\* of the loop that reports one of them finds a last observed value for it
\* from which the rate moved by the threshold or more, and records the rate
\* as its last observed value.
C14_RatesGatedAndRecorded ==
    [][(/\ Len(messages') = Len(messages) + 1
        /\ messages'[Len(messages')].id \in RateInstruments)
       => LET m == messages'[Len(messages')] IN
          /\ m.id \in DOMAIN last_price
          /\ ~minor_move(m.value, last_price[m.id])
          /\ m.id \in DOMAIN last_price'
          /\ last_price'[m.id] = m.value]_vars

\* C16: the iteration of an equity that has no last_price entry seeds its
\* baseline with the price just fetched and reports nothing, whatever the
\* price: no equity is reported in the cycle that sees it for the first time.
C16_FirstSightSeedsAndSkips ==
    [][(/\ pc = "stocks"
        /\ idx <= Len(ALL_STOCKS)
        /\ ALL_STOCKS[idx] \notin DOMAIN last_price)
       => /\ messages' = messages
          /\ pc' # "dead" =>
               /\ last_p' = price'
               /\ ALL_STOCKS[idx] \in DOMAIN last_price'
               /\ last_price'[ALL_STOCKS[idx]] = price'
               /\ idx' = idx + 1]_vars

\* In the first cycle AAPL was fetched at 102, seeded with it and not reported.
C16_Witness ==
    /\ pc = "stocks"
    /\ idx = 2
    /\ DOMAIN last_price = {ALL_STOCKS[1]}
    /\ last_price[ALL_STOCKS[1]] = 102
    /\ last_p = 102
    /\ ~Reported(ALL_STOCKS[1])

\* A log of provider calls or of deliveries names no entry twice.
NoRepeat(log) == \A i, j \in 1..Len(log) : i < j => log[i] # log[j]

\* C17: within one cycle of the signal loop no provider is called twice for
\* the same instrument and no message is delivered twice, also after a
\* failed call: there are no retries.
C17_OneAttemptPerCycle ==
    /\ NoRepeat(calls)
    /\ NoRepeat(sent)

\* A completed cycle in which a rate fetch gave nothing and an AI call failed.
C17_Witness ==
    /\ pc = "sleep"
    /\ \E k \in 1..Len(messages) :
          /\ messages[k].signal = ai_signal("raise")
          /\ Called("ai", messages[k].id)
    /\ \E x \in RateInstruments : Called("rate", x) /\ ~Reported(x)

\* bot.py: the messages of a cycle are built once per instrument and each
\* platform is handed each of them at most once.
MultiOneAttemptPerCycle ==
    /\ NoRepeat([k \in 1..Len(m_messages) |-> m_messages[k].id])
    /\ NoRepeat(m_discord)
    /\ NoRepeat(m_telegram)

\* The cap was reached inside the equities loop: the message that filled the
\* cycle's quota is an equity's.
CapInEquities ==
    /\ Len(messages) >= MAX_MESSAGES_PER_UPDATE
    /\ messages[MAX_MESSAGES_PER_UPDATE].id \in
           {ALL_STOCKS[i] : i \in 1..Len(ALL_STOCKS)}

\* C18: the header is the first message sent in a cycle and counts against
\* the cap, so at most MAX_MESSAGES_PER_UPDATE - 1 instrument messages are
\* sent.  When the cap is reached inside the equities loop, the forex and
\* commodities loops still run: each fetches its rates up to the first one it
\* gets, asks the AI provider about it and appends a message, and no message
\* of a forex pair or commodity is delivered in that cycle.
C18_HeaderCountsAndWorkPastCap ==
    /\ Len(sent) >= 1 => sent[1] = Header
    /\ Cardinality({k \in 1..Len(sent) : sent[k] # Header})
           <= MAX_MESSAGES_PER_UPDATE - 1
    /\ CapInEquities =>
         /\ pc \in {"commodities", "send", "sleep"} /\ FOREX_PAIRS # <<>>
               => Called("rate", FOREX_PAIRS[1])
         /\ pc \in {"send", "sleep"} /\ COMMODITIES # <<>>
               => Called("rate", COMMODITIES[1])
         /\ \A k \in 1..Len(messages) :
               k > MAX_MESSAGES_PER_UPDATE =>
                   /\ messages[k].id \in RateInstruments
                   /\ Called("rate", messages[k].id)
                   /\ Called("ai", messages[k].id)
         /\ \A k \in 1..Len(sent) : sent[k].id \notin RateInstruments

\* A completed cycle whose cap was reached by an equity, with a forex and a
\* commodity message built after it and the capped messages all sent.
C18_Witness ==
    /\ pc = "sleep"
    /\ CapInEquities
    /\ Len(messages) = MAX_MESSAGES_PER_UPDATE + 2
    /\ Len(sent) = MAX_MESSAGES_PER_UPDATE

====
